---------------------------- MODULE Spec2Model ----------------------------
(***************************************************************************)
(* Model of the YC Directory server (src/yc_mcp.py).                       *)
(*                                                                         *)
(* The server registers tools and resources; each is a synchronous         *)
(* handler that performs its HTTP fetches, transforms the JSON it got and  *)
(* returns a dict.  Handlers share no state, so one handler invocation is  *)
(* one action: it draws the upstream's answer to each of its requests,     *)
(* computes the handler's result as the code computes it, and records the  *)
(* requests it issued.  `Respond` hands the result back and the server     *)
(* waits for the next call.                                                *)
(*                                                                         *)
(* Text is a sequence of chunks.  Text that the code inspects character by *)
(* character (names, keywords, labels) has one character per chunk;        *)
(* literal pieces of f-strings are one chunk each.  A Python dict is a     *)
(* function whose DOMAIN is the set of keys that are present.              *)
(***************************************************************************)
EXTENDS Integers, Sequences, FiniteSets, TLC

VARIABLES pc, call, fetches, outcome

vars == <<pc, call, fetches, outcome>>

\* Longest collection the upstream returns in the model.
MaxLen == 2

\* Default of filter_companies' limit parameter.
FilterDefaultLimit == 50

\* Default of list_top_companies' limit parameter.
TopDefaultLimit == 10

-----------------------------------------------------------------------------
(* Python built-ins used by the handlers *)

UpperToLower ==
    [A |-> "a", B |-> "b", S |-> "s", T |-> "t", W |-> "w", X |-> "x", Y |-> "y"]

LowerCh(c) == IF c \in DOMAIN UpperToLower THEN UpperToLower[c] ELSE c

\* str.lower()
Lower(s) == [i \in 1..Len(s) |-> LowerCh(s[i])]

\* str.replace(" ", "-")
ReplaceSpace(s) == [i \in 1..Len(s) |-> IF s[i] = " " THEN "-" ELSE s[i]]

\* `k in s` for two strings
StrIn(k, s) == \E i \in 0..(Len(s) - Len(k)) : SubSeq(s, i + 1, i + Len(k)) = k

\* `x in xs` for a list
ListIn(x, xs) == \E i \in 1..Len(xs) : xs[i] = x

\* dict.get(key, default)
Get(d, key, default) == IF key \in DOMAIN d THEN d[key] ELSE default

\* seq[:limit] gone wrong: seq[-limit:], the last `limit` elements
Slice_FromEnd(seq, limit) ==
    IF limit > 0 /\ limit < Len(seq)
    THEN SubSeq(seq, Len(seq) - limit + 1, Len(seq))
    ELSE IF limit = 0 THEN << >> ELSE seq

\* seq[:limit]
Slice(seq, limit) ==
    IF limit >= 0
    THEN SubSeq(seq, 1, IF limit < Len(seq) THEN limit ELSE Len(seq))
    ELSE SubSeq(seq, 1, IF Len(seq) + limit > 0 THEN Len(seq) + limit ELSE 0)

Digit == <<"0", "1", "2", "3", "4", "5", "6", "7", "8", "9">>

RECURSIVE IntStr(_)
\* str(n) for an int n >= 0
IntStr(n) == IF n < 10 THEN <<Digit[n + 1]>> ELSE IntStr(n \div 10) \o <<Digit[(n % 10) + 1]>>

\* str(None)
NoneStr == <<"None">>

\* the value None inside a returned dict
PyNone == [py |-> "None"]

-----------------------------------------------------------------------------
(* The upstream service: what a request may be answered with *)

\* str(e) of the exception a failed request raises
FailureDescs == {<<"timeout">>, <<"404 Client Error">>}

\* Company records of the collection endpoints.  Every field is optional; a field
\* that is present holds a value of its documented type (a string, a list of
\* strings).  The five records cover, for each field the handlers read, its
\* absence and its presence, lists with no, one and two entries, and upper- and
\* lower-case spellings.
FullCompany ==
    [name |-> <<"A", "b">>, one_liner |-> <<"b">>, long_description |-> <<"a">>,
     batch |-> <<"W">>, industries |-> << <<"X">> >>, tags |-> << <<"T">> >>]

MultiCompany ==
    [name |-> <<"b">>, one_liner |-> <<"B">>, long_description |-> <<"B", "A">>,
     batch |-> <<"w">>, industries |-> << <<"X">>, <<"Y">> >>,
     tags |-> << <<"t">>, <<"s">> >>]

NamelessCompany ==
    [one_liner |-> <<"a", "b">>, batch |-> <<"S">>, industries |-> << >>, tags |-> << >>]

BareCompany == [name |-> <<"a">>]

PlainCompany ==
    [name |-> <<"B">>, batch |-> <<"W">>, industries |-> << <<"y">> >>,
     tags |-> << <<"T">> >>]

Companies == {FullCompany, MultiCompany, NamelessCompany, BareCompany, PlainCompany}

\* JSON arrays a collection endpoint may return
Collections == UNION {[1..n -> Companies] : n \in 0..MaxLen}

\* Records of the batch endpoints as compare_companies_by_batch reads them
BatchCompanies ==
    {[name |-> <<"a">>, industry |-> <<"X">>],
     [name |-> <<"b">>, industry |-> <<"Y">>],
     [name |-> <<"b">>]}

BatchCollections == UNION {[1..n -> BatchCompanies] : n \in 0..MaxLen}

\* JSON objects the company detail endpoint may return
DetailDomains == SUBSET {"name", "one_liner", "team_size", "status"}

Details ==
    UNION {{[k \in D |-> CASE k = "name" -> <<"A", "b">>
                           [] k = "one_liner" -> <<"b">>
                           [] k = "team_size" -> n
                           [] k = "status" -> st]
             : n \in {0, 7, 120}, st \in {<<"Public">>, <<"Active">>}}
           : D \in DetailDomains}

\* JSON object of meta.json
Metas == {[companies |-> 2, batches |-> 1], [companies |-> 0]}

Failed(desc) == [ok |-> FALSE, desc |-> desc]

Ok(body) == [ok |-> TRUE, body |-> body]

\* Answers per endpoint kind
CollectionResponses == {Failed(d) : d \in FailureDescs} \cup {Ok(c) : c \in Collections}

BatchResponses == {Failed(d) : d \in FailureDescs} \cup {Ok(c) : c \in BatchCollections}

DetailResponses == {Failed(d) : d \in FailureDescs} \cup {Ok(c) : c \in Details}

MetaResponses == {Failed(d) : d \in FailureDescs} \cup {Ok(c) : c \in Metas}

-----------------------------------------------------------------------------
(* Arguments callers pass *)

Slugs == {<<"x">>, <<"y">>}

BatchNames == {<<"W">>, <<"s">>}

IndustryNames == {<<"X">>, <<"a", " ", "B">>}

TagNames == {<<"t">>, <<"A", " ", "b">>}

Keywords == {<< >>, <<"a">>, <<"A">>, <<"b">>, <<"a", "b">>}

Limits == (-1..MaxLen) \cup {TopDefaultLimit}

\* keyword arguments of filter_companies; a key that is absent was not passed
FilterArgs ==
    UNION {{[k \in D |-> CASE k = "keyword" -> kw
                           [] k = "industry" -> <<"x">>
                           [] k = "batch" -> <<"w">>
                           [] k = "tag" -> <<"t">>
                           [] k = "limit" -> n]
             : kw \in Keywords, n \in (-1..MaxLen)}
           : D \in SUBSET {"keyword", "industry", "batch", "tag", "limit"}}

-----------------------------------------------------------------------------
(* Control flow of a handler *)

Return(v) == [kind |-> "return", value |-> v]

Raise(m) == [kind |-> "raise", msg |-> m]

\* except Exception as e: return {"error": str(e)}
Except(r) == IF r.kind = "raise" THEN Return([error |-> r.msg]) ELSE r

\* requests.get(url); response.raise_for_status(); response.json()
fetch(url, resp) == IF resp.ok THEN Return(resp.body) ELSE Raise(resp.desc)

\* what the handler's run leaves behind: the requests it issued and its result
Ran(log, out) == [log |-> log, out |-> out]

Request(url, resp) == [url |-> url, resp |-> resp]

\* d[key]
Subscript(d, key) ==
    IF key \in DOMAIN d THEN Return(d[key]) ELSE Raise(<<"'", key, "'">>)

-----------------------------------------------------------------------------
(* Handlers.  Each takes its arguments and the upstream's answer to each   *)
(* request it may issue, and yields Ran(requests issued, result).          *)

\* the tools that fetch one fixed collection and wrap it as {"companies": data}
ListCollection(path, resp) ==
    LET data == fetch(path, resp)
    IN  Ran(<<Request(path, resp)>>,
            Except(IF data.kind = "raise" THEN data
                   ELSE Return([companies |-> data.value])))

list_top_companies(limit, resp) ==
    LET url == <<"companies/top.json">>
        data == fetch(url, resp)
    IN  Ran(<<Request(url, resp)>>,
            Except(IF data.kind = "raise" THEN data
                   ELSE Return([companies |-> Slice(data.value, limit)])))

get_company_details(slug, resp) ==
    LET url == <<"companies/">> \o slug \o <<".json">>
    IN  Ran(<<Request(url, resp)>>, Except(fetch(url, resp)))

\* list_companies_by_batch gone wrong: a failed request is issued once more
list_companies_by_batch_Retry(batch, resp) ==
    LET url == <<"batches/">> \o Lower(batch) \o <<".json">>
        data == fetch(url, resp)
    IN  Ran(IF data.kind = "raise" THEN <<Request(url, resp), Request(url, resp)>>
            ELSE <<Request(url, resp)>>,
            Except(IF data.kind = "raise" THEN data
                   ELSE Return([batch |-> batch, companies |-> data.value])))

list_companies_by_batch(batch, resp) ==
    LET url == <<"batches/">> \o Lower(batch) \o <<".json">>
        data == fetch(url, resp)
    IN  Ran(<<Request(url, resp)>>,
            Except(IF data.kind = "raise" THEN data
                   ELSE Return([batch |-> batch, companies |-> data.value])))

\* keyword.lower() in c['name'].lower() or keyword.lower() in c.get('one_liner', '').lower()
SearchMatch(keyword, c) ==
    LET name == Subscript(c, "name")
    IN  IF name.kind = "raise" THEN name
        ELSE Return(\/ StrIn(Lower(keyword), Lower(name.value))
                    \/ StrIn(Lower(keyword), Lower(Get(c, "one_liner", << >>))))

RECURSIVE SearchMatches(_, _)
\* [c for c in all_companies if ...]: the first element that raises ends the loop
SearchMatches(keyword, cs) ==
    IF cs = << >> THEN Return(<< >>)
    ELSE LET m == SearchMatch(keyword, Head(cs))
         IN  IF m.kind = "raise" THEN m
             ELSE LET rest == SearchMatches(keyword, Tail(cs))
                  IN  IF rest.kind = "raise" THEN rest
                      ELSE Return((IF m.value THEN <<Head(cs)>> ELSE << >>) \o rest.value)

search_companies(keyword, resp) ==
    LET url == <<"companies/all.json">>
        data == fetch(url, resp)
    IN  Ran(<<Request(url, resp)>>,
            Except(IF data.kind = "raise" THEN data
                   ELSE LET matches == SearchMatches(keyword, data.value)
                        IN  IF matches.kind = "raise" THEN matches
                            ELSE Return([matches |-> matches.value])))

\* f"{c.get('error')}"
ErrorText(c) == IF "error" \in DOMAIN c THEN c.error ELSE NoneStr

\* SizeText gone wrong: c.get("team_size") without the default
SizeText_NoDefault(c) == IF "team_size" \in DOMAIN c THEN IntStr(c.team_size) ELSE NoneStr

\* size = c.get("team_size", 0), as f"{size}" prints it
SizeText(c) == IntStr(Get(c, "team_size", 0))

compare_company_sizes(slug1, slug2, resp1, resp2) ==
    LET r1 == get_company_details(slug1, resp1)
        r2 == get_company_details(slug2, resp2)
        c1 == r1.out.value
        c2 == r2.out.value
    IN  Ran(r1.log \o r2.log,
            Except(IF "error" \in DOMAIN c1 \/ "error" \in DOMAIN c2
            THEN Return([error |-> <<"Failed to fetch details. ">> \o ErrorText(c1)
                                     \o <<" ">> \o ErrorText(c2)])
            ELSE Return([comparison |-> slug1 \o <<" (">> \o SizeText(c1)
                                          \o <<") vs ">> \o slug2 \o <<" (">>
                                          \o SizeText(c2) \o <<")">>])))

company_resource(slug, resp) ==
    LET r == get_company_details(slug, resp)
        result == r.out.value
        name == Subscript(result, "name")
    IN  Ran(r.log,
            IF "error" \in DOMAIN result THEN Return(result)
            ELSE IF name.kind = "raise" THEN name
            ELSE Return([summary |-> name.value \o <<": ">>
                                       \o Get(result, "one_liner", <<"No one-liner">>)]))

get_api_metadata(resp) ==
    LET url == <<"meta.json">>
    IN  Ran(<<Request(url, resp)>>, Except(fetch(url, resp)))

list_all_companies(resp) == ListCollection(<<"companies/all.json">>, resp)

list_black_founded_companies(resp) ==
    ListCollection(<<"companies/black-founded.json">>, resp)

list_hispanic_latino_founded_companies(resp) ==
    ListCollection(<<"companies/hispanic-latino-founded.json">>, resp)

list_women_founded_companies(resp) ==
    ListCollection(<<"companies/women-founded.json">>, resp)

list_nonprofit_companies(resp) == ListCollection(<<"companies/nonprofit.json">>, resp)

list_hiring_companies(resp) == ListCollection(<<"companies/hiring.json">>, resp)

list_companies_by_industry(industry, resp) ==
    LET industry_slug == ReplaceSpace(Lower(industry))
        url == <<"industries/">> \o industry_slug \o <<".json">>
        data == fetch(url, resp)
    IN  Ran(<<Request(url, resp)>>,
            Except(IF data.kind = "raise" THEN data
                   ELSE Return([industry |-> industry, companies |-> data.value])))

list_companies_by_tag(tag, resp) ==
    LET tag_slug == ReplaceSpace(Lower(tag))
        url == <<"tags/">> \o tag_slug \o <<".json">>
        data == fetch(url, resp)
    IN  Ran(<<Request(url, resp)>>,
            Except(IF data.kind = "raise" THEN data
                   ELSE Return([tag |-> tag, companies |-> data.value])))

\* the label given to a record that has no value for the counted field
Unknown == <<"U", "n", "k", "n", "o", "w", "n">>

\* counts[label] = counts.get(label, 0) + 1, on a dict kept as its items in
\* insertion order
Increment(counts, label) ==
    IF \E i \in 1..Len(counts) : counts[i][1] = label
    THEN [i \in 1..Len(counts) |->
             IF counts[i][1] = label THEN <<label, counts[i][2] + 1>> ELSE counts[i]]
    ELSE Append(counts, <<label, 1>>)

RECURSIVE CountLabels(_, _)
\* the counting loop over a sequence of labels, starting from `counts`
CountLabels(counts, labels) ==
    IF labels = << >> THEN counts
    ELSE CountLabels(Increment(counts, Head(labels)), Tail(labels))

RECURSIVE BatchIndustries(_)
\* company.get("industry", "Unknown") for company in batch_companies
BatchIndustries(cs) ==
    IF cs = << >> THEN << >>
    ELSE <<Get(Head(cs), "industry", Unknown)>> \o BatchIndustries(Tail(cs))

\* compare_companies_by_batch gone wrong: the first failed listing is returned
\* as it is, the other failure is dropped
compare_companies_by_batch_FirstError(batch1, batch2, resp1, resp2) ==
    LET r1 == list_companies_by_batch(batch1, resp1)
        r2 == list_companies_by_batch(batch2, resp2)
        batch1_data == r1.out.value
        batch2_data == r2.out.value
    IN  Ran(r1.log \o r2.log,
            IF "error" \in DOMAIN batch1_data THEN Return(batch1_data)
            ELSE IF "error" \in DOMAIN batch2_data THEN Return(batch2_data)
            ELSE Return([comparison |-> batch1 \o <<" vs ">> \o batch2]))

compare_companies_by_batch(batch1, batch2, resp1, resp2) ==
    LET r1 == list_companies_by_batch(batch1, resp1)
        r2 == list_companies_by_batch(batch2, resp2)
        batch1_data == r1.out.value
        batch2_data == r2.out.value
        batch1_companies == Get(batch1_data, "companies", << >>)
        batch2_companies == Get(batch2_data, "companies", << >>)
    IN  Ran(r1.log \o r2.log,
            Except(IF "error" \in DOMAIN batch1_data \/ "error" \in DOMAIN batch2_data
            THEN Return([error |-> <<"Failed to fetch batch data. ">>
                                     \o ErrorText(batch1_data) \o <<" ">>
                                     \o ErrorText(batch2_data)])
            ELSE Return(
                [comparison |-> batch1 \o <<" (">> \o IntStr(Len(batch1_companies))
                                  \o <<" companies) vs ">> \o batch2 \o <<" (">>
                                  \o IntStr(Len(batch2_companies)) \o <<" companies)">>,
                 batch1 |-> [name |-> batch1, count |-> Len(batch1_companies),
                             industries |->
                                 CountLabels(<< >>, BatchIndustries(batch1_companies))],
                 batch2 |-> [name |-> batch2, count |-> Len(batch2_companies),
                             industries |->
                                 CountLabels(<< >>, BatchIndustries(batch2_companies))]])))

\* `if keyword:` on an optional string argument
Supplied(args, key) == key \in DOMAIN args /\ args[key] # << >>

\* [x.lower() for x in xs]
LowerAll(xs) == [i \in 1..Len(xs) |-> Lower(xs[i])]

KeywordFilter(cs, keyword) ==
    LET Keep(c) == \/ StrIn(Lower(keyword), Lower(Get(c, "name", << >>)))
                   \/ StrIn(Lower(keyword), Lower(Get(c, "one_liner", << >>)))
                   \/ StrIn(Lower(keyword), Lower(Get(c, "long_description", << >>)))
    IN  SelectSeq(cs, Keep)

IndustryFilter(cs, industry) ==
    LET Keep(c) == ListIn(Lower(industry), LowerAll(Get(c, "industries", << >>)))
    IN  SelectSeq(cs, Keep)

BatchFilter(cs, batch) ==
    LET Keep(c) == Lower(batch) = Lower(Get(c, "batch", << >>))
    IN  SelectSeq(cs, Keep)

TagFilter(cs, tag) ==
    LET Keep(c) == ListIn(Lower(tag), LowerAll(Get(c, "tags", << >>)))
    IN  SelectSeq(cs, Keep)

\* FilterSteps gone wrong: the batch step filters all_companies again instead
\* of filtered_companies
FilterSteps_BatchFromAll(all_companies, args) ==
    LET f1 == IF Supplied(args, "keyword")
              THEN KeywordFilter(all_companies, args.keyword) ELSE all_companies
        f2 == IF Supplied(args, "industry") THEN IndustryFilter(f1, args.industry) ELSE f1
        f3 == IF Supplied(args, "batch") THEN BatchFilter(all_companies, args.batch) ELSE f2
    IN  IF Supplied(args, "tag") THEN TagFilter(f3, args.tag) ELSE f3

\* the four `if <argument>:` steps, each narrowing filtered_companies
FilterSteps(all_companies, args) ==
    LET f1 == IF Supplied(args, "keyword")
              THEN KeywordFilter(all_companies, args.keyword) ELSE all_companies
        f2 == IF Supplied(args, "industry") THEN IndustryFilter(f1, args.industry) ELSE f1
        f3 == IF Supplied(args, "batch") THEN BatchFilter(f2, args.batch) ELSE f2
    IN  IF Supplied(args, "tag") THEN TagFilter(f3, args.tag) ELSE f3

\* filters_applied
FiltersApplied(args) ==
    LET Entry(key) == IF Supplied(args, key)
                      THEN << <<key, "='">> \o args[key] \o <<"'">> >> ELSE << >>
    IN  Entry("keyword") \o Entry("industry") \o Entry("batch") \o Entry("tag")

filter_companies(args, resp) ==
    LET r == list_all_companies(resp)
        all_companies_data == r.out.value
        all_companies == Get(all_companies_data, "companies", << >>)
        filtered_companies ==
            Slice(FilterSteps(all_companies, args), Get(args, "limit", FilterDefaultLimit))
    IN  Ran(r.log,
            Except(IF "error" \in DOMAIN all_companies_data THEN Return(all_companies_data)
            ELSE Return([filters |-> FiltersApplied(args),
                         total_matches |-> Len(filtered_companies),
                         companies |-> filtered_companies])))

RECURSIVE IndustryLabels(_)
\* for company in all_companies: for industry in company.get("industries", ["Unknown"])
IndustryLabels(cs) ==
    IF cs = << >> THEN << >>
    ELSE Get(Head(cs), "industries", <<Unknown>>) \o IndustryLabels(Tail(cs))

RECURSIVE TagLabels(_)
\* for company in all_companies: for tag in company.get("tags", [])
TagLabels(cs) ==
    IF cs = << >> THEN << >>
    ELSE Get(Head(cs), "tags", << >>) \o TagLabels(Tail(cs))

\* where sorted(..., key=count, reverse=True) puts one more item: behind every
\* item whose count is not smaller
InsertByCount(sorted, item) ==
    LET ahead == Cardinality({i \in 1..Len(sorted) : sorted[i][2] >= item[2]})
    IN  SubSeq(sorted, 1, ahead) \o <<item>> \o SubSeq(sorted, ahead + 1, Len(sorted))

RECURSIVE SortInto(_, _)
SortInto(sorted, items) ==
    IF items = << >> THEN sorted
    ELSE SortInto(InsertByCount(sorted, Head(items)), Tail(items))

\* sorted(counts.items(), key=lambda x: x[1], reverse=True)
SortedByCount(counts) == SortInto(<< >>, counts)

get_industry_stats(resp) ==
    LET r == list_all_companies(resp)
        all_companies_data == r.out.value
        all_companies == Get(all_companies_data, "companies", << >>)
        industry_counts == CountLabels(<< >>, IndustryLabels(all_companies))
    IN  Ran(r.log,
            Except(IF "error" \in DOMAIN all_companies_data THEN Return(all_companies_data)
            ELSE Return([total_companies |-> Len(all_companies),
                         industry_stats |-> SortedByCount(industry_counts)])))

get_tag_stats(resp) ==
    LET r == list_all_companies(resp)
        all_companies_data == r.out.value
        all_companies == Get(all_companies_data, "companies", << >>)
        tag_counts == CountLabels(<< >>, TagLabels(all_companies))
    IN  Ran(r.log,
            Except(IF "error" \in DOMAIN all_companies_data THEN Return(all_companies_data)
            ELSE Return([total_companies |-> Len(all_companies),
                         tag_stats |-> SortedByCount(tag_counts)])))

get_public_company_stock_info(slug, resp) ==
    LET r == get_company_details(slug, resp)
        company_data == r.out.value
    IN  Ran(r.log,
            Except(IF "error" \in DOMAIN company_data THEN Return(company_data)
            ELSE IF "status" \notin DOMAIN company_data
                    \/ company_data.status # <<"Public">>
            THEN Return([error |-> (IF "name" \in DOMAIN company_data
                                    THEN company_data.name ELSE NoneStr)
                                   \o <<" is not a public company">>])
            ELSE Return([company |-> Get(company_data, "name", PyNone),
                         status |-> <<"Public">>,
                         stock_info |->
                             [note |->
                                  <<"This is simulated stock data for demonstration purposes">>,
                              price |-> <<"$XXX.XX">>,
                              change |-> <<"+/-X.XX%">>,
                              market_cap |-> <<"$XX.XX billion">>]])))

\* the summary the industry, tag and batch resources build from a listing
ListingSummary(kind, name, result) ==
    LET companies == Get(result, "companies", << >>)
    IN  IF "error" \in DOMAIN result THEN Return(result)
        ELSE Return([summary |-> <<kind>> \o name \o <<" - ">> \o IntStr(Len(companies))
                                   \o <<" companies">>,
                     count |-> Len(companies)])

industry_resource(industry, resp) ==
    LET r == list_companies_by_industry(industry, resp)
    IN  Ran(r.log, ListingSummary("Industry: ", industry, r.out.value))

tag_resource(tag, resp) ==
    LET r == list_companies_by_tag(tag, resp)
    IN  Ran(r.log, ListingSummary("Tag: ", tag, r.out.value))

batch_resource(batch, resp) ==
    LET r == list_companies_by_batch(batch, resp)
    IN  Ran(r.log, ListingSummary("Batch: ", batch, r.out.value))

-----------------------------------------------------------------------------
(* The server: one call at a time, answered before the next is taken *)

NoCall == [op |-> "none"]

NoOutcome == [kind |-> "none"]

Init ==
    /\ pc = "idle"
    /\ call = NoCall
    /\ fetches = << >>
    /\ outcome = NoOutcome

\* Each Call_ action is the protocol shell dispatching one call to its handler,
\* which runs to its end: `call` is the call, `fetches` the requests the handler
\* issued with the upstream's answers, `outcome` what the handler ended with.

Call_list_top_companies ==
    /\ pc = "idle"
    /\ \E limit \in Limits, resp \in CollectionResponses :
        LET ran == list_top_companies(limit, resp)
        IN  /\ pc' = "done"
            /\ call' = [op |-> "list_top_companies", args |-> [limit |-> limit]]
            /\ fetches' = ran.log
            /\ outcome' = ran.out

Call_get_company_details ==
    /\ pc = "idle"
    /\ \E slug \in Slugs, resp \in DetailResponses :
        LET ran == get_company_details(slug, resp)
        IN  /\ pc' = "done"
            /\ call' = [op |-> "get_company_details", args |-> [slug |-> slug]]
            /\ fetches' = ran.log
            /\ outcome' = ran.out

Call_list_companies_by_batch ==
    /\ pc = "idle"
    /\ \E batch \in BatchNames, resp \in CollectionResponses :
        LET ran == list_companies_by_batch(batch, resp)
        IN  /\ pc' = "done"
            /\ call' = [op |-> "list_companies_by_batch", args |-> [batch |-> batch]]
            /\ fetches' = ran.log
            /\ outcome' = ran.out

Call_search_companies ==
    /\ pc = "idle"
    /\ \E keyword \in Keywords, resp \in CollectionResponses :
        LET ran == search_companies(keyword, resp)
        IN  /\ pc' = "done"
            /\ call' = [op |-> "search_companies", args |-> [keyword |-> keyword]]
            /\ fetches' = ran.log
            /\ outcome' = ran.out

Call_compare_company_sizes ==
    /\ pc = "idle"
    /\ \E slug1 \in Slugs, slug2 \in Slugs, resp1 \in DetailResponses, resp2 \in DetailResponses :
        LET ran == compare_company_sizes(slug1, slug2, resp1, resp2)
        IN  /\ pc' = "done"
            /\ call' = [op |-> "compare_company_sizes", args |-> [slug1 |-> slug1, slug2 |-> slug2]]
            /\ fetches' = ran.log
            /\ outcome' = ran.out

Call_company_resource ==
    /\ pc = "idle"
    /\ \E slug \in Slugs, resp \in DetailResponses :
        LET ran == company_resource(slug, resp)
        IN  /\ pc' = "done"
            /\ call' = [op |-> "company_resource", args |-> [slug |-> slug]]
            /\ fetches' = ran.log
            /\ outcome' = ran.out

Call_get_api_metadata ==
    /\ pc = "idle"
    /\ \E resp \in MetaResponses :
        LET ran == get_api_metadata(resp)
        IN  /\ pc' = "done"
            /\ call' = [op |-> "get_api_metadata", args |-> << >>]
            /\ fetches' = ran.log
            /\ outcome' = ran.out

Call_list_all_companies ==
    /\ pc = "idle"
    /\ \E resp \in CollectionResponses :
        LET ran == list_all_companies(resp)
        IN  /\ pc' = "done"
            /\ call' = [op |-> "list_all_companies", args |-> << >>]
            /\ fetches' = ran.log
            /\ outcome' = ran.out

Call_list_black_founded_companies ==
    /\ pc = "idle"
    /\ \E resp \in CollectionResponses :
        LET ran == list_black_founded_companies(resp)
        IN  /\ pc' = "done"
            /\ call' = [op |-> "list_black_founded_companies", args |-> << >>]
            /\ fetches' = ran.log
            /\ outcome' = ran.out

Call_list_hispanic_latino_founded_companies ==
    /\ pc = "idle"
    /\ \E resp \in CollectionResponses :
        LET ran == list_hispanic_latino_founded_companies(resp)
        IN  /\ pc' = "done"
            /\ call' = [op |-> "list_hispanic_latino_founded_companies", args |-> << >>]
            /\ fetches' = ran.log
            /\ outcome' = ran.out

Call_list_women_founded_companies ==
    /\ pc = "idle"
    /\ \E resp \in CollectionResponses :
        LET ran == list_women_founded_companies(resp)
        IN  /\ pc' = "done"
            /\ call' = [op |-> "list_women_founded_companies", args |-> << >>]
            /\ fetches' = ran.log
            /\ outcome' = ran.out

Call_list_nonprofit_companies ==
    /\ pc = "idle"
    /\ \E resp \in CollectionResponses :
        LET ran == list_nonprofit_companies(resp)
        IN  /\ pc' = "done"
            /\ call' = [op |-> "list_nonprofit_companies", args |-> << >>]
            /\ fetches' = ran.log
            /\ outcome' = ran.out

Call_list_hiring_companies ==
    /\ pc = "idle"
    /\ \E resp \in CollectionResponses :
        LET ran == list_hiring_companies(resp)
        IN  /\ pc' = "done"
            /\ call' = [op |-> "list_hiring_companies", args |-> << >>]
            /\ fetches' = ran.log
            /\ outcome' = ran.out

Call_list_companies_by_industry ==
    /\ pc = "idle"
    /\ \E industry \in IndustryNames, resp \in CollectionResponses :
        LET ran == list_companies_by_industry(industry, resp)
        IN  /\ pc' = "done"
            /\ call' = [op |-> "list_companies_by_industry", args |-> [industry |-> industry]]
            /\ fetches' = ran.log
            /\ outcome' = ran.out

Call_list_companies_by_tag ==
    /\ pc = "idle"
    /\ \E tag \in TagNames, resp \in CollectionResponses :
        LET ran == list_companies_by_tag(tag, resp)
        IN  /\ pc' = "done"
            /\ call' = [op |-> "list_companies_by_tag", args |-> [tag |-> tag]]
            /\ fetches' = ran.log
            /\ outcome' = ran.out

Call_compare_companies_by_batch ==
    /\ pc = "idle"
    /\ \E batch1 \in BatchNames, batch2 \in BatchNames,
          resp1 \in BatchResponses, resp2 \in BatchResponses :
        LET ran == compare_companies_by_batch(batch1, batch2, resp1, resp2)
        IN  /\ pc' = "done"
            /\ call' = [op |-> "compare_companies_by_batch",
                        args |-> [batch1 |-> batch1, batch2 |-> batch2]]
            /\ fetches' = ran.log
            /\ outcome' = ran.out

Call_filter_companies ==
    /\ pc = "idle"
    /\ \E args \in FilterArgs, resp \in CollectionResponses :
        LET ran == filter_companies(args, resp)
        IN  /\ pc' = "done"
            /\ call' = [op |-> "filter_companies", args |-> args]
            /\ fetches' = ran.log
            /\ outcome' = ran.out

Call_get_industry_stats ==
    /\ pc = "idle"
    /\ \E resp \in CollectionResponses :
        LET ran == get_industry_stats(resp)
        IN  /\ pc' = "done"
            /\ call' = [op |-> "get_industry_stats", args |-> << >>]
            /\ fetches' = ran.log
            /\ outcome' = ran.out

Call_get_tag_stats ==
    /\ pc = "idle"
    /\ \E resp \in CollectionResponses :
        LET ran == get_tag_stats(resp)
        IN  /\ pc' = "done"
            /\ call' = [op |-> "get_tag_stats", args |-> << >>]
            /\ fetches' = ran.log
            /\ outcome' = ran.out

Call_get_public_company_stock_info ==
    /\ pc = "idle"
    /\ \E slug \in Slugs, resp \in DetailResponses :
        LET ran == get_public_company_stock_info(slug, resp)
        IN  /\ pc' = "done"
            /\ call' = [op |-> "get_public_company_stock_info", args |-> [slug |-> slug]]
            /\ fetches' = ran.log
            /\ outcome' = ran.out

Call_industry_resource ==
    /\ pc = "idle"
    /\ \E industry \in IndustryNames, resp \in CollectionResponses :
        LET ran == industry_resource(industry, resp)
        IN  /\ pc' = "done"
            /\ call' = [op |-> "industry_resource", args |-> [industry |-> industry]]
            /\ fetches' = ran.log
            /\ outcome' = ran.out

Call_tag_resource ==
    /\ pc = "idle"
    /\ \E tag \in TagNames, resp \in CollectionResponses :
        LET ran == tag_resource(tag, resp)
        IN  /\ pc' = "done"
            /\ call' = [op |-> "tag_resource", args |-> [tag |-> tag]]
            /\ fetches' = ran.log
            /\ outcome' = ran.out

Call_batch_resource ==
    /\ pc = "idle"
    /\ \E batch \in BatchNames, resp \in CollectionResponses :
        LET ran == batch_resource(batch, resp)
        IN  /\ pc' = "done"
            /\ call' = [op |-> "batch_resource", args |-> [batch |-> batch]]
            /\ fetches' = ran.log
            /\ outcome' = ran.out

\* the result (or the fault) has been handed back; the server waits again
Respond ==
    /\ pc = "done"
    /\ pc' = "idle"
    /\ call' = NoCall
    /\ fetches' = << >>
    /\ outcome' = NoOutcome

Next ==
    \/ Call_list_top_companies
    \/ Call_get_company_details
    \/ Call_list_companies_by_batch
    \/ Call_search_companies
    \/ Call_compare_company_sizes
    \/ Call_company_resource
    \/ Call_get_api_metadata
    \/ Call_list_all_companies
    \/ Call_list_black_founded_companies
    \/ Call_list_hispanic_latino_founded_companies
    \/ Call_list_women_founded_companies
    \/ Call_list_nonprofit_companies
    \/ Call_list_hiring_companies
    \/ Call_list_companies_by_industry
    \/ Call_list_companies_by_tag
    \/ Call_compare_companies_by_batch
    \/ Call_filter_companies
    \/ Call_get_industry_stats
    \/ Call_get_tag_stats
    \/ Call_get_public_company_stock_info
    \/ Call_industry_resource
    \/ Call_tag_resource
    \/ Call_batch_resource
    \/ Respond

Spec == Init /\ [][Next]_vars

-----------------------------------------------------------------------------
(* Vocabulary of the properties *)

Done == pc = "done"

Returned == outcome.kind = "return"

ErrorResult == Returned /\ "error" \in DOMAIN outcome.value

Success == Returned /\ "error" \notin DOMAIN outcome.value

\* the upstream answered the handler's i-th request with a document
FetchOk(i) == i \in 1..Len(fetches) /\ fetches[i].resp.ok

SomeFetchFailed == \E i \in 1..Len(fetches) : ~fetches[i].resp.ok

\* the collection the handler's first request got
Fetched == fetches[1].resp.body

Range(seq) == {seq[i] : i \in 1..Len(seq)}

Min(a, b) == IF a < b THEN a ELSE b

KeywordFields == {"name", "one_liner", "long_description"}

\* the match rules of the specification's predicate table
MatchesKeyword(c, keyword) ==
    \E f \in KeywordFields \cap DOMAIN c : StrIn(Lower(keyword), Lower(c[f]))

MatchesIndustry(c, industry) ==
    /\ "industries" \in DOMAIN c
    /\ \E i \in 1..Len(c.industries) : Lower(c.industries[i]) = Lower(industry)

MatchesBatch(c, batch) == "batch" \in DOMAIN c /\ Lower(c.batch) = Lower(batch)

MatchesTag(c, tag) ==
    /\ "tags" \in DOMAIN c
    /\ \E i \in 1..Len(c.tags) : Lower(c.tags[i]) = Lower(tag)

PredicateKeys == {"keyword", "industry", "batch", "tag"}

\* the predicates a filter_companies call supplies
SuppliedKeys(args) == {k \in PredicateKeys : Supplied(args, k)}

\* record c satisfies every predicate that args supplies
SatisfiesEvery(c, args) ==
    /\ Supplied(args, "keyword") => MatchesKeyword(c, args.keyword)
    /\ Supplied(args, "industry") => MatchesIndustry(c, args.industry)
    /\ Supplied(args, "batch") => MatchesBatch(c, args.batch)
    /\ Supplied(args, "tag") => MatchesTag(c, args.tag)

\* the records of cs that satisfy every predicate of args, in cs's order
Satisfying(cs, args) == LET Keep(c) == SatisfiesEvery(c, args) IN SelectSeq(cs, Keep)

\* args cut down to the predicates named in keys
Restrict(args, keys) == [k \in DOMAIN args \cap keys |-> args[k]]

RECURSIVE SumCounts(_)
SumCounts(items) == IF items = << >> THEN 0 ELSE Head(items)[2] + SumCounts(Tail(items))

\* the count a dict's items give a label, 0 when the label is no key
CountOf(items, label) ==
    SumCounts(LET Is(item) == item[1] = label IN SelectSeq(items, Is))

HasName(c) == "name" \in DOMAIN c

\* the record has no entry for a list field: the field is missing or empty
NoEntries(c, field) == field \notin DOMAIN c \/ c[field] = << >>

-----------------------------------------------------------------------------
(* C1 *)

\* C1: every operation, whatever the upstream answered, ends by returning a
\* mapping (the payload or {"error": ...}); none ends by raising past its entry point.
C1_NoFaultPastEntryPoint == Done => Returned

-----------------------------------------------------------------------------
(* C3 *)

\* C3: in search_companies and in filter_companies, whenever a list is returned,
\* a fetched record is in it iff the keyword, compared case-insensitively, is a
\* substring of its name, one_liner or long_description; and a keyword that
\* differs only in letter case gives the same result.
C3_KeywordMatchesAnyOfThreeFields ==
    /\ (Done /\ call.op = "search_companies" /\ FetchOk(1) /\ Success) =>
           /\ \A i \in 1..Len(Fetched) :
                  Fetched[i] \in Range(outcome.value.matches)
                      <=> MatchesKeyword(Fetched[i], call.args.keyword)
           /\ \A k \in Keywords :
                  Lower(k) = Lower(call.args.keyword) =>
                      search_companies(k, fetches[1].resp).out = outcome
    /\ (Done /\ call.op = "filter_companies" /\ FetchOk(1) /\ Success
             /\ SuppliedKeys(call.args) = {"keyword"}
             /\ Get(call.args, "limit", FilterDefaultLimit) >= Len(Fetched)) =>
           /\ \A i \in 1..Len(Fetched) :
                  Fetched[i] \in Range(outcome.value.companies)
                      <=> MatchesKeyword(Fetched[i], call.args.keyword)
           /\ \A k \in Keywords :
                  Lower(k) = Lower(call.args.keyword) =>
                      filter_companies([call.args EXCEPT !.keyword = k],
                                       fetches[1].resp).out.value.companies
                          = outcome.value.companies

-----------------------------------------------------------------------------
(* C4 *)

\* C4: when the fetched collection holds a record without `name`, a keyword search
\* (search_companies, filter_companies with a keyword) returns a success payload,
\* the nameless records are not in its list, and the list is the one the same call
\* gives on the collection without the nameless records.
C4_NamelessRecordExcludedNoError ==
    /\ (Done /\ call.op = "search_companies" /\ FetchOk(1)
             /\ \E i \in 1..Len(Fetched) : ~HasName(Fetched[i])) =>
           /\ Success
           /\ \A c \in Range(outcome.value.matches) : HasName(c)
           /\ outcome.value.matches
                  = search_companies(call.args.keyword,
                                     Ok(SelectSeq(Fetched, HasName))).out.value.matches
    /\ (Done /\ call.op = "filter_companies" /\ FetchOk(1)
             /\ Supplied(call.args, "keyword")
             /\ \E i \in 1..Len(Fetched) : ~HasName(Fetched[i])) =>
           /\ Success
           /\ \A c \in Range(outcome.value.companies) : HasName(c)
           /\ outcome.value.companies
                  = filter_companies(call.args,
                                     Ok(SelectSeq(Fetched, HasName))).out.value.companies

-----------------------------------------------------------------------------
(* C5 *)

\* C5: the counts of get_industry_stats sum to at least the number of fetched
\* records (total_companies), and to exactly that number when every record carries
\* exactly one industry.
C5_IndustryCountsCoverEveryRecord ==
    (Done /\ call.op = "get_industry_stats" /\ FetchOk(1)) =>
        /\ Success
        /\ outcome.value.total_companies = Len(Fetched)
        /\ SumCounts(outcome.value.industry_stats) >= Len(Fetched)
        /\ (\A i \in 1..Len(Fetched) :
                "industries" \in DOMAIN Fetched[i] /\ Len(Fetched[i].industries) = 1)
               => SumCounts(outcome.value.industry_stats) = Len(Fetched)

-----------------------------------------------------------------------------
(* C6 *)

\* C6: in get_industry_stats and get_tag_stats the count of "Unknown" is the
\* number of fetched records whose aggregated field is missing or an empty list.
C6_UnknownCountsRecordsWithoutEntries ==
    /\ (Done /\ call.op = "get_industry_stats" /\ FetchOk(1)) =>
           /\ Success
           /\ CountOf(outcome.value.industry_stats, Unknown)
                  = Cardinality({i \in 1..Len(Fetched) : NoEntries(Fetched[i], "industries")})
    /\ (Done /\ call.op = "get_tag_stats" /\ FetchOk(1)) =>
           /\ Success
           /\ CountOf(outcome.value.tag_stats, Unknown)
                  = Cardinality({i \in 1..Len(Fetched) : NoEntries(Fetched[i], "tags")})

-----------------------------------------------------------------------------
(* C2 *)

\* C2: in filter_companies (no truncation by the limit) the supplied predicates
\* compose conjunctively and in any order: for any two sets P1, P2 of the call's
\* predicates (taken in either order), running the filter steps for P2 over the
\* output of the steps for P1 gives the same sequence as running the steps once
\* for P1 and P2 together, which is the records that satisfy every predicate of
\* both, in the collection's order; and the call returns exactly the records
\* that satisfy every predicate it supplies.
C2_PredicatesComposeConjunctively ==
    (Done /\ call.op = "filter_companies" /\ FetchOk(1)
          /\ Get(call.args, "limit", FilterDefaultLimit) >= Len(Fetched)) =>
        /\ Success
        /\ outcome.value.companies = Satisfying(Fetched, call.args)
        /\ LET keys == SuppliedKeys(call.args)
               Once == [S \in SUBSET keys |-> FilterSteps(Fetched, Restrict(call.args, S))]
           IN  /\ \A S \in SUBSET keys :
                      Once[S] = Satisfying(Fetched, Restrict(call.args, S))
               /\ \A P1 \in SUBSET keys, P2 \in SUBSET keys :
                      FilterSteps(Once[P1], Restrict(call.args, P2)) = Once[P1 \cup P2]

\* a call with a keyword and a batch, on two different records of which the
\* predicates keep one
C2_Witness ==
    /\ Done /\ call.op = "filter_companies" /\ FetchOk(1)
    /\ {"keyword", "batch"} \subseteq SuppliedKeys(call.args)
    /\ "limit" \notin DOMAIN call.args
    /\ Len(Fetched) = 2 /\ Fetched[1] # Fetched[2]
    /\ Success /\ Len(outcome.value.companies) = 1

-----------------------------------------------------------------------------
(* C7 *)

CompositeOps == {"compare_companies_by_batch", "compare_company_sizes"}

\* C7: when a sub-fetch of compare_companies_by_batch or compare_company_sizes
\* fails, the result is a mapping with the `error` field alone, and the message
\* contains the failure description of every sub-fetch that failed.
C7_CompositeErrorNamesEveryFailure ==
    (Done /\ call.op \in CompositeOps /\ SomeFetchFailed) =>
        /\ Returned
        /\ DOMAIN outcome.value = {"error"}
        /\ \A i \in 1..Len(fetches) :
               ~fetches[i].resp.ok => StrIn(fetches[i].resp.desc, outcome.value.error)

\* both listings of a batch comparison failed, each for its own reason
C7_Witness ==
    /\ Done /\ call.op = "compare_companies_by_batch"
    /\ Len(fetches) = 2
    /\ ~fetches[1].resp.ok /\ ~fetches[2].resp.ok
    /\ fetches[1].resp.desc # fetches[2].resp.desc
    /\ ErrorResult

-----------------------------------------------------------------------------
(* C8 *)

\* C8 as stated: within one operation no resource is requested twice, and after
\* a failed request no further request is issued.
C8_FailFastNoFurtherFetch ==
    Done =>
        /\ \A i, j \in 1..Len(fetches) : i < j => fetches[i].url # fetches[j].url
        /\ \A i, j \in 1..Len(fetches) : i < j => fetches[i].resp.ok

\* the requests an operation is to issue, in order: one per resource it names
ExpectedUrls ==
    LET a == call.args
        Company(slug) == <<"companies/">> \o slug \o <<".json">>
        Batch(batch) == <<"batches/">> \o Lower(batch) \o <<".json">>
        All == << <<"companies/all.json">> >>
    IN  CASE call.op = "compare_company_sizes" -> <<Company(a.slug1), Company(a.slug2)>>
          [] call.op = "compare_companies_by_batch" -> <<Batch(a.batch1), Batch(a.batch2)>>
          [] call.op \in {"list_companies_by_batch", "batch_resource"} -> <<Batch(a.batch)>>
          [] call.op \in {"get_company_details", "company_resource",
                          "get_public_company_stock_info"} -> <<Company(a.slug)>>
          [] call.op \in {"list_companies_by_industry", "industry_resource"} ->
                 << <<"industries/">> \o ReplaceSpace(Lower(a.industry)) \o <<".json">> >>
          [] call.op \in {"list_companies_by_tag", "tag_resource"} ->
                 << <<"tags/">> \o ReplaceSpace(Lower(a.tag)) \o <<".json">> >>
          [] call.op \in {"list_all_companies", "search_companies", "filter_companies",
                          "get_industry_stats", "get_tag_stats"} -> All
          [] call.op = "list_top_companies" -> << <<"companies/top.json">> >>
          [] call.op = "get_api_metadata" -> << <<"meta.json">> >>
          [] call.op = "list_black_founded_companies" ->
                 << <<"companies/black-founded.json">> >>
          [] call.op = "list_hispanic_latino_founded_companies" ->
                 << <<"companies/hispanic-latino-founded.json">> >>
          [] call.op = "list_women_founded_companies" ->
                 << <<"companies/women-founded.json">> >>
          [] call.op = "list_nonprofit_companies" -> << <<"companies/nonprofit.json">> >>
          [] call.op = "list_hiring_companies" -> << <<"companies/hiring.json">> >>

\* C8, amended: no operation retries.  Every operation issues exactly one request
\* per resource argument, in argument order (two for the compare operations, the
\* second also after the first failed, otherwise one), never re-requests, and
\* returns an error mapping whenever one of its requests failed.
C8_NoRetry ==
    Done =>
        /\ Len(fetches) = IF call.op \in CompositeOps THEN 2 ELSE 1
        /\ Len(fetches) = Len(ExpectedUrls)
        /\ \A i \in 1..Len(fetches) : fetches[i].url = ExpectedUrls[i]
        /\ SomeFetchFailed => ErrorResult

\* a batch comparison whose first listing failed and whose second was fetched
C8_Witness ==
    /\ Done /\ call.op = "compare_companies_by_batch"
    /\ Len(fetches) = 2
    /\ ~fetches[1].resp.ok /\ fetches[2].resp.ok
    /\ ErrorResult

-----------------------------------------------------------------------------
(* C9 *)

\* C9: for a limit N >= 0, list_top_companies returns the first min(N, |C|)
\* records of the fetched collection C, and filter_companies the first min(N, m)
\* of the m records that satisfy its predicates, in C's order; never more than N.
C9_LimitKeepsFirstInOrder ==
    /\ (Done /\ call.op = "list_top_companies" /\ FetchOk(1) /\ call.args.limit >= 0) =>
           /\ Success
           /\ outcome.value.companies
                  = SubSeq(Fetched, 1, Min(call.args.limit, Len(Fetched)))
           /\ Len(outcome.value.companies) <= call.args.limit
    /\ (Done /\ call.op = "filter_companies" /\ FetchOk(1)
             /\ Get(call.args, "limit", FilterDefaultLimit) >= 0) =>
           LET N == Get(call.args, "limit", FilterDefaultLimit)
               M == Satisfying(Fetched, call.args)
           IN  /\ Success
               /\ outcome.value.companies = SubSeq(M, 1, Min(N, Len(M)))
               /\ outcome.value.total_matches = Min(N, Len(M))
               /\ Len(outcome.value.companies) <= N

\* a filter whose predicates keep two different records and whose limit is 1
C9_Witness ==
    /\ Done /\ call.op = "filter_companies" /\ FetchOk(1)
    /\ SuppliedKeys(call.args) # {}
    /\ Get(call.args, "limit", FilterDefaultLimit) = 1
    /\ Len(Satisfying(Fetched, call.args)) = 2
    /\ Fetched[1] # Fetched[2]
    /\ Success /\ outcome.value.companies = <<Fetched[1]>>

-----------------------------------------------------------------------------
(* C10 *)

\* the team size the comparison is to print for a record: 0 when it is missing
ExpectedSize(c) == IF "team_size" \in DOMAIN c THEN IntStr(c.team_size) ELSE <<"0">>

\* C10: when both detail fetches succeed, compare_company_sizes returns the success
\* payload {"comparison": "<slug1> (<size1>) vs <slug2> (<size2>)"}, each size the
\* record's team_size, and 0 for a record without team_size.
C10_SizeComparisonDefaultsToZero ==
    (Done /\ call.op = "compare_company_sizes" /\ FetchOk(1) /\ FetchOk(2)) =>
        /\ Returned
        /\ outcome.value =
               [comparison |->
                    call.args.slug1 \o <<" (">> \o ExpectedSize(fetches[1].resp.body)
                    \o <<") vs ">> \o call.args.slug2 \o <<" (">>
                    \o ExpectedSize(fetches[2].resp.body) \o <<")">>]

\* the first record lacks team_size, the second has a team of 120
C10_Witness ==
    /\ Done /\ call.op = "compare_company_sizes" /\ FetchOk(1) /\ FetchOk(2)
    /\ "team_size" \notin DOMAIN fetches[1].resp.body
    /\ "team_size" \in DOMAIN fetches[2].resp.body
    /\ fetches[2].resp.body.team_size = 120
    /\ Success

=============================================================================
